---- MODULE Spec2Model ----
(***************************************************************************)
(* MarketScan AI backend (src/backend/main.py): the read-only query        *)
(* endpoints over the in-memory DATASET, the response parser and the       *)
(* /predict orchestrator.                                                  *)
(*                                                                         *)
(* Text that the program takes apart (the model's reply, the city filter)  *)
(* is a sequence of one-character strings, so that split, strip, replace,  *)
(* startswith and lower are computed character by character as Python      *)
(* computes them.  Names that the program only compares for equality       *)
(* (market and commodity names, HTTP details) are plain strings.           *)
(***************************************************************************)
EXTENDS Integers, Sequences, FiniteSets, TLC

VARIABLES
    dataset,        \* DATASET, loaded once at import time (main.py:26-27)
    model,          \* the module-level `model`: "gemini" or "none" (main.py:18-22)
    pc,             \* position of the request handler being served
    request,        \* the request being served (its path/query/body values)
    response,       \* the HTTP response handed back to the caller
    prices,         \* predict_price's local `prices`
    dates,          \* predict_price's local `dates`
    prompt,         \* predict_price's local `prompt`
    response_text,  \* predict_price's local `response_text`
    e,              \* the exception predict_price's `except Exception as e` caught
    calls,          \* calls of model.generate_content made by the current request
    trace           \* the steps the current predict request has taken, in order

vars == <<dataset, model, pc, request, response, prices, dates, prompt,
          response_text, e, calls, trace>>

predictLocals == <<prices, dates, prompt, response_text, e, calls, trace>>

(***************************************************************************)
(* Python values                                                           *)
(***************************************************************************)
\* Optional[...]: None, or a present value.
None == [some |-> FALSE]
Some(v) == [some |-> TRUE, val |-> v]

NoRequest == [endpoint |-> "none"]
NoResponse == [status |-> 0]

(***************************************************************************)
(* str methods, on sequences of characters                                 *)
(***************************************************************************)
IsWhitespace(c) == c \in {" ", "\n", "\t"}

RECURSIVE lstrip(_)
lstrip(s) ==
    IF s # <<>> /\ IsWhitespace(Head(s)) THEN lstrip(Tail(s)) ELSE s

RECURSIVE rstrip(_)
rstrip(s) ==
    IF s # <<>> /\ IsWhitespace(s[Len(s)])
    THEN rstrip(SubSeq(s, 1, Len(s) - 1))
    ELSE s

strip(s) == rstrip(lstrip(s))

startswith(s, prefix) ==
    /\ Len(s) >= Len(prefix)
    /\ SubSeq(s, 1, Len(prefix)) = prefix

\* str.find, 1-based: the first index >= i at which sub occurs in s, 0 if none.
RECURSIVE find(_, _, _)
find(s, sub, i) ==
    IF i + Len(sub) - 1 > Len(s) THEN 0
    ELSE IF SubSeq(s, i, i + Len(sub) - 1) = sub THEN i
    ELSE find(s, sub, i + 1)

\* str.split(sep): the pieces between the non-overlapping occurrences of sep,
\* scanned left to right; always at least one piece.
RECURSIVE split(_, _)
split(s, sep) ==
    LET i == find(s, sep, 1)
    IN  IF i = 0 THEN <<s>>
        ELSE <<SubSeq(s, 1, i - 1)>> \o split(SubSeq(s, i + Len(sep), Len(s)), sep)

\* str.replace(old, new): EVERY non-overlapping occurrence of old is replaced.
RECURSIVE replace(_, _, _)
replace(s, old, new) ==
    LET i == find(s, old, 1)
    IN  IF i = 0 THEN s
        ELSE SubSeq(s, 1, i - 1) \o new
             \o replace(SubSeq(s, i + Len(old), Len(s)), old, new)

\* Python's `x or default` on strings: the empty string is falsy.
OrDefault(x, default) == IF x # <<>> THEN x ELSE default

(***************************************************************************)
(* String literals of main.py                                              *)
(***************************************************************************)
\* " / "
Delim == <<" ","/"," ">>
\* "Prediction:"
PrefixPrediction == <<"P","r","e","d","i","c","t","i","o","n",":">>
\* "Confidence:"
PrefixConfidence == <<"C","o","n","f","i","d","e","n","c","e",":">>
\* "Tip:"
PrefixTip == <<"T","i","p",":">>
\* "Price movement uncertain"
DefaultPrediction == <<"P","r","i","c","e"," ","m","o","v","e","m","e","n","t"," ","u","n","c","e","r","t","a","i","n">>
\* "60%"
DefaultConfidence == <<"6","0","%">>
\* "Monitor market conditions"
DefaultTip == <<"M","o","n","i","t","o","r"," ","m","a","r","k","e","t"," ","c","o","n","d","i","t","i","o","n","s">>

(***************************************************************************)
(* parse_gemini_response (main.py:104-130)                                 *)
(*                                                                         *)
(* The except branch (lines 124-130) is not modelled: split, strip,        *)
(* startswith and replace do not raise on a str, and response_text is one. *)
(***************************************************************************)
\* The body of the for loop: one part, folded into the three locals.
ParsePart(acc, rawPart) ==
    LET part == strip(rawPart)
    IN  IF startswith(part, PrefixPrediction)
        THEN [acc EXCEPT !.prediction = strip(replace(part, PrefixPrediction, <<>>))]
        ELSE IF startswith(part, PrefixConfidence)
        THEN [acc EXCEPT !.confidence = strip(replace(part, PrefixConfidence, <<>>))]
        ELSE IF startswith(part, PrefixTip)
        THEN [acc EXCEPT !.tip = strip(replace(part, PrefixTip, <<>>))]
        ELSE acc

RECURSIVE ParseLoop(_, _)
ParseLoop(acc, parts) ==
    IF parts = <<>> THEN acc
    ELSE ParseLoop(ParsePart(acc, Head(parts)), Tail(parts))

\* The returned dict without the `or` defaults.
ParseNoDefault(x, default) == x

\* The `or` defaults of the returned dict (main.py:119-121).
ParseDefault(x, default) == OrDefault(x, default)

parse_gemini_response(text) ==
    LET acc == ParseLoop([prediction |-> <<>>, confidence |-> <<>>, tip |-> <<>>],
                         split(text, Delim))
    IN  [prediction   |-> ParseDefault(acc.prediction, DefaultPrediction),
         confidence   |-> ParseDefault(acc.confidence, DefaultConfidence),
         tip          |-> ParseDefault(acc.tip, DefaultTip),
         raw_response |-> text]

(***************************************************************************)
(* Inputs of the parser: every concatenation of at most MaxPieces pieces.  *)
(***************************************************************************)
MaxPieces == 5

Pieces ==
    { PrefixPrediction,
      \* "Prediction: Up."
      <<"P","r","e","d","i","c","t","i","o","n",":"," ","U","p",".">>,
      \* "Confidence: 80%"
      <<"C","o","n","f","i","d","e","n","c","e",":"," ","8","0","%">>,
      \* "Tip: Buy now."
      <<"T","i","p",":"," ","B","u","y"," ","n","o","w",".">>,
      Delim,
      <<" ">>,
      \* "tip:" (the prefixes are case-sensitive)
      <<"t","i","p",":">> }

RECURSIVE Concats(_)
Concats(n) ==
    IF n = 0 THEN {<<>>}
    ELSE LET shorter == Concats(n - 1)
         IN  shorter \cup {s \o p : s \in shorter, p \in Pieces}

ParseInputs == Concats(MaxPieces)

(***************************************************************************)
(* DATASET (main.py:24-27): the JSON document, read once and never written *)
(***************************************************************************)
MaxPrice == 2

\* DATASET["markets"], in document order.
Markets == <<"Merkato", "Adama">>
\* A market name that no dataset holds.
UnknownMarket == "Bishoftu"
\* The commodities a market's object may hold, in document order.
CommodityOrder == <<"Teff", "Maize">>
UnknownCommodity == "Salt"
Catalog == [m \in {"Merkato", "Adama"} |->
               IF m = "Merkato" THEN {"Teff", "Maize"} ELSE {"Teff"}]
\* DATASET["dates"]
Dates == <<"d1", "d2">>
\* DATASET["markets_meta"][m]["city"]
MarketsMeta == [m \in {"Merkato", "Adama"} |->
                   IF m = "Merkato" THEN [city |-> <<"A","d","d","i","s">>]
                                    ELSE [city |-> <<"a","d","a","m","a">>]]

Range(s) == {s[i] : i \in DOMAIN s}

\* A price list: at most one price per date, each in 0..MaxPrice.
SeriesOver(P) == UNION {[1..n -> P] : n \in 0..Len(Dates)}

\* DATASET["data"][m]: a JSON object holding some of the market's commodities
\* (possibly none of them).
MarketObjects(m, S) == UNION {[T -> S] : T \in SUBSET Catalog[m]}

\* The JSON objects that hold exactly the markets M.
RECURSIVE DataOver(_, _)
DataOver(M, S) ==
    IF M = {} THEN {<< >>}
    ELSE LET m == CHOOSE x \in M : TRUE
         IN  {[k \in M |-> IF k = m THEN o ELSE d[k]] :
                  d \in DataOver(M \ {m}, S), o \in MarketObjects(m, S)}

\* DATASET["data"]: a JSON object holding some of the markets.
DataObjects(S) == UNION {DataOver(M, S) : M \in SUBSET Range(Markets)}

Datasets(S) ==
    {[markets |-> Markets, markets_meta |-> MarketsMeta, data |-> d, dates |-> Dates] :
         d \in DataObjects(S)}

\* dict.get(key): None when the key is absent.
DictGet(d, k) == IF k \in DOMAIN d THEN Some(d[k]) ELSE None

\* list(d.keys()) / d.items(): the keys in document order.
Keys(d) == SelectSeq(CommodityOrder, LAMBDA c : c \in DOMAIN d)

(***************************************************************************)
(* Numbers.  Prices are integers; a change percent is the exact quotient   *)
(* num/den in lowest terms (den > 0).  Float division is correctly rounded *)
(* and monotone, so on these small operands two floats are equal, or       *)
(* ordered, exactly as the quotients are.                                  *)
(***************************************************************************)
Abs(n) == IF n < 0 THEN -n ELSE n

RECURSIVE GCD(_, _)
GCD(a, b) == IF b = 0 THEN a ELSE GCD(b, a % b)

Frac(n, d) ==
    LET g == GCD(Abs(n), d)
    IN  [num |-> n \div g, den |-> d \div g]

Zero == Frac(0, 1)

\* abs(x) of a quotient, and the order of two quotients.
FracAbs(x) == [num |-> Abs(x.num), den |-> x.den]
FracLess(x, y) == x.num * y.den < y.num * x.den

\* HTTPException(status_code=404, detail=...)
NotFound(detail) == [status |-> 404, detail |-> detail]
\* An exception no handler catches: FastAPI answers 500.
ServerError(fault) == [status |-> 500, fault |-> fault]

(***************************************************************************)
(* get_prices_from_dataset (main.py:64-72): the price list, or the 404     *)
(***************************************************************************)
\* `not market_data`: None and the empty dict are both falsy.
MarketDataFalsy(market_data) ==
    \/ ~market_data.some
    \/ DOMAIN market_data.val = {}

get_prices_from_dataset(market, commodity) ==
    LET market_data == DictGet(dataset.data, market)
    IN  IF MarketDataFalsy(market_data)
        THEN [ok |-> FALSE, error |-> NotFound("Market not found")]
        ELSE LET found == DictGet(market_data.val, commodity)
             IN  IF ~found.some
                 THEN [ok |-> FALSE, error |-> NotFound("Commodity not found")]
                 ELSE [ok |-> TRUE, prices |-> found.val]

(***************************************************************************)
(* The expression of main.py:167 and :184                                  *)
(***************************************************************************)
change_percent(p) ==
    IF p[1] # 0 THEN Frac((p[Len(p)] - p[1]) * 100, p[1]) ELSE Zero

(***************************************************************************)
(* GET /commodities/{market} (main.py:150-155)                             *)
(***************************************************************************)
get_commodities(market) ==
    IF market \notin DOMAIN dataset.data
    THEN NotFound("Market not found")
    ELSE [status |-> 200, commodities |-> Keys(dataset.data[market])]

(***************************************************************************)
(* GET /prices/{market}/{commodity} (main.py:157-171)                      *)
(***************************************************************************)
get_prices(market, commodity) ==
    LET looked == get_prices_from_dataset(market, commodity)
    IN  IF ~looked.ok THEN looked.error
        ELSE IF looked.prices = <<>>
        THEN ServerError("IndexError")          \* prices[-1] of an empty list
        ELSE [status |-> 200,
              market |-> market,
              commodity |-> commodity,
              prices |-> looked.prices,
              dates |-> dataset.dates,
              latest_price |-> looked.prices[Len(looked.prices)],
              change_percent |-> change_percent(looked.prices)]

(***************************************************************************)
(* GET /featured (main.py:173-195)                                         *)
(***************************************************************************)
MaxLimit == 3

UpperCase == <<"A","B","C","D","E","F","G","H","I","J","K","L","M",
               "N","O","P","Q","R","S","T","U","V","W","X","Y","Z">>
LowerCase == <<"a","b","c","d","e","f","g","h","i","j","k","l","m",
               "n","o","p","q","r","s","t","u","v","w","x","y","z">>

LowerMap == [c \in Range(UpperCase) |->
                LowerCase[CHOOSE i \in 1..26 : UpperCase[i] = c]]

LowerChar(c) == IF c \in DOMAIN LowerMap THEN LowerMap[c] ELSE c

\* str.lower()
lower(s) == [i \in 1..Len(s) |-> LowerChar(s[i])]

\* markets_meta.get(m, {}).get("city", "")
CityOf(m) ==
    IF m \in DOMAIN dataset.markets_meta THEN dataset.markets_meta[m].city ELSE <<>>

\* The `continue` of line 179-180: a non-empty city filter that the market's
\* city does not match, case-insensitively.
Skipped(city, m) ==
    /\ city.some
    /\ city.val # <<>>
    /\ lower(CityOf(m)) # lower(city.val)

\* The dict appended for one (market, commodity) item (lines 183-192).
FeaturedEntry(m, item, p) ==
    [market |-> m,
     commodity |-> item,
     latest_price |-> IF p # <<>> THEN Some(p[Len(p)]) ELSE None,
     change_percent |-> IF p # <<>> THEN change_percent(p) ELSE Zero]

\* The inner loop: the items of one market, in document order.
MarketEntries(m) ==
    LET items == IF m \in DOMAIN dataset.data THEN dataset.data[m] ELSE << >>
        keys == IF m \in DOMAIN dataset.data THEN Keys(items) ELSE << >>
    IN  [i \in 1..Len(keys) |-> FeaturedEntry(m, keys[i], items[keys[i]])]

\* The outer loop: `featured` before the sort.
RECURSIVE Candidates(_, _)
Candidates(city, ms) ==
    IF ms = <<>> THEN <<>>
    ELSE (IF Skipped(city, Head(ms)) THEN <<>> ELSE MarketEntries(Head(ms)))
         \o Candidates(city, Tail(ms))

\* The sort key without abs().
SortKeySigned(x) == x.change_percent

\* The sort key (line 194).
SortKey(x) == FracAbs(x.change_percent)

\* list.sort(key=..., reverse=True) is stable: an element goes behind every
\* element whose key is not smaller than its own.
InsertDesc(sorted, item) ==
    LET ahead == SelectSeq(sorted, LAMBDA x : ~FracLess(SortKey(x), SortKey(item)))
        behind == SelectSeq(sorted, LAMBDA x : FracLess(SortKey(x), SortKey(item)))
    IN  ahead \o <<item>> \o behind

RECURSIVE SortDesc(_, _)
SortDesc(sorted, rest) ==
    IF rest = <<>> THEN sorted
    ELSE SortDesc(InsertDesc(sorted, Head(rest)), Tail(rest))

\* featured[:limit]
SliceTo(s, limit) ==
    IF limit >= 0
    THEN SubSeq(s, 1, IF limit < Len(s) THEN limit ELSE Len(s))
    ELSE SubSeq(s, 1, Len(s) + limit)

get_featured(limit, city) ==
    [status |-> 200,
     items |-> SliceTo(SortDesc(<<>>, Candidates(city, dataset.markets)), limit)]

(***************************************************************************)
(* The query endpoints, one request at a time                              *)
(***************************************************************************)
MarketArgs == Range(Markets) \cup {UnknownMarket}
CommodityArgs == Range(CommodityOrder) \cup {UnknownCommodity}
\* ?city= : absent, empty, and three spellings
CityArgs ==
    { None, Some(<<>>), Some(<<"A","D","D","I","S">>), Some(<<"A","d","a","m","a">>),
      Some(<<"J","i","m","m","a">>) }
LimitArgs == (-1)..MaxLimit

QueryLocalsUnchanged == UNCHANGED <<dataset, model, predictLocals>>

GetCommodities(market) ==
    /\ pc = "idle"
    /\ request' = [endpoint |-> "commodities", market |-> market]
    /\ response' = get_commodities(market)
    /\ pc' = "responded"
    /\ QueryLocalsUnchanged

GetPrices(market, commodity) ==
    /\ pc = "idle"
    /\ request' = [endpoint |-> "prices", market |-> market, commodity |-> commodity]
    /\ response' = get_prices(market, commodity)
    /\ pc' = "responded"
    /\ QueryLocalsUnchanged

GetFeatured(limit, city) ==
    /\ pc = "idle"
    /\ request' = [endpoint |-> "featured", limit |-> limit, city |-> city]
    /\ response' = get_featured(limit, city)
    /\ pc' = "responded"
    /\ QueryLocalsUnchanged

NoPredictLocals ==
    /\ prices = None
    /\ dates = <<>>
    /\ prompt = None
    /\ response_text = None
    /\ e = None
    /\ calls = 0
    /\ trace = <<>>

\* The response is sent and the handler's frame is gone; the next request may
\* come.
SendResponse ==
    /\ pc = "responded"
    /\ pc' = "idle"
    /\ request' = NoRequest
    /\ response' = NoResponse
    /\ prices' = None
    /\ dates' = <<>>
    /\ prompt' = None
    /\ response_text' = None
    /\ e' = None
    /\ calls' = 0
    /\ trace' = <<>>
    /\ UNCHANGED <<dataset, model>>

\* No query endpoint reads `model`: one value of it stands for both.
InitQuery ==
    /\ dataset \in Datasets(SeriesOver(0..MaxPrice))
    /\ model = "none"
    /\ pc = "idle"
    /\ request = NoRequest
    /\ response = NoResponse
    /\ NoPredictLocals

NextQuery ==
    \/ \E market \in MarketArgs : GetCommodities(market)
    \/ \E market \in MarketArgs, commodity \in CommodityArgs : GetPrices(market, commodity)
    \/ \E limit \in LimitArgs, city \in CityArgs : GetFeatured(limit, city)
    \/ SendResponse

SpecQuery == InitQuery /\ [][NextQuery]_vars

(***************************************************************************)
(* Properties of the query endpoints (under SpecQuery)                     *)
(***************************************************************************)
Served(endpoint) == pc = "responded" /\ request.endpoint = endpoint

\* The (market, commodity) pairs the dataset stores.
Stored(market, commodity) ==
    /\ market \in DOMAIN dataset.data
    /\ commodity \in DOMAIN dataset.data[market]

\* C7: for every (market, commodity) pair stored in the dataset, GET /prices
\* succeeds with latest_price the last stored price and change_percent equal to
\* (last - first) / first * 100, or 0 when first = 0; it never ends in a fault.
C7_PriceSeriesOfEveryStoredPair ==
    (Served("prices") /\ Stored(request.market, request.commodity)) =>
        LET p == dataset.data[request.market][request.commodity]
        IN  /\ response.status = 200
            /\ p # <<>>
            /\ response.latest_price = p[Len(p)]
            /\ IF p[1] = 0
               THEN response.change_percent.num = 0
               ELSE response.change_percent.num * p[1]
                        = (p[Len(p)] - p[1]) * 100 * response.change_percent.den

\* C9: lookup failures of the data endpoints are 404s (unknown market for
\* /commodities and /prices, unknown commodity of a known market for /prices),
\* and the two endpoints agree on which markets exist: /prices never answers
\* "Market not found" for a market that /commodities lists.
C9_LookupFailuresAgree ==
    /\ (Served("commodities") /\ request.market \notin DOMAIN dataset.data) =>
           response.status = 404
    /\ (Served("prices") /\ request.market \notin DOMAIN dataset.data) =>
           response.status = 404
    /\ (Served("prices") /\ request.market \in DOMAIN dataset.data
            /\ request.commodity \notin DOMAIN dataset.data[request.market]) =>
           response.status = 404
    /\ (Served("prices") /\ response = NotFound("Market not found")) =>
           get_commodities(request.market).status = 404

\* The pairs GET /featured is to rank, stated from the dataset: the markets in
\* document order whose city passes the filter, each with its commodities in
\* document order.
PassesFilter(city, m) ==
    \/ ~city.some
    \/ city.val = <<>>
    \/ lower(MarketsMeta[m].city) = lower(city.val)

ExpectedPairs(city) ==
    LET all == [k \in 1..(Len(Markets) * Len(CommodityOrder)) |->
                   <<Markets[((k - 1) \div Len(CommodityOrder)) + 1],
                     CommodityOrder[((k - 1) % Len(CommodityOrder)) + 1]>>]
    IN  SelectSeq(all, LAMBDA mc : Stored(mc[1], mc[2]) /\ PassesFilter(city, mc[1]))

\* |change percent| of a stored series as numerator and denominator.
ExpectedKey(mc) ==
    LET p == dataset.data[mc[1]][mc[2]]
    IN  IF p = <<>> \/ p[1] = 0 THEN <<0, 1>>
        ELSE <<Abs(p[Len(p)] - p[1]) * 100, p[1]>>

KeyLess(a, b) == a[1] * b[2] < b[1] * a[2]

\* mc1 is ranked ahead of mc2: a larger |change|, or the same and enumerated first.
RankedAhead(pairs, i, j) ==
    \/ KeyLess(ExpectedKey(pairs[j]), ExpectedKey(pairs[i]))
    \/ /\ ~KeyLess(ExpectedKey(pairs[i]), ExpectedKey(pairs[j]))
       /\ i < j

Min(a, b) == IF a < b THEN a ELSE b

\* C8: GET /featured with limit >= 0 returns exactly min(limit, #candidates)
\* entries, one candidate per stored pair of a market passing the
\* case-insensitive city filter; the entries are the first `limit` of the
\* candidates ordered by |change percent| descending, ties in enumeration order.
C8_FeaturedRanking ==
    (Served("featured") /\ request.limit >= 0) =>
        LET pairs == ExpectedPairs(request.city)
            items == response.items
        IN  /\ response.status = 200
            /\ Len(items) = Min(request.limit, Len(pairs))
            /\ \E pos \in [1..Len(items) -> 1..Len(pairs)] :
                  \* each entry is the candidate of one pair
                  /\ \A i \in 1..Len(items) :
                        /\ <<items[i].market, items[i].commodity>> = pairs[pos[i]]
                        /\ FracAbs(items[i].change_percent).num * ExpectedKey(pairs[pos[i]])[2]
                             = ExpectedKey(pairs[pos[i]])[1] * items[i].change_percent.den
                  \* in rank order
                  /\ \A i, j \in 1..Len(items) :
                        i < j => RankedAhead(pairs, pos[i], pos[j])
                  \* and no pair left out is ranked ahead of one returned
                  /\ \A k \in 1..Len(pairs) :
                        (\A i \in 1..Len(items) : pos[i] # k) =>
                            \A i \in 1..Len(items) : RankedAhead(pairs, pos[i], k)

\* limit = 2 cuts off one of three candidates: the first enumerated pair has
\* the smallest |change| and is dropped, and the two returned tie on |change|
\* with opposite signs, in enumeration order.
C8_Witness ==
    /\ Served("featured")
    /\ request.limit = 2
    /\ ~request.city.some
    /\ Len(ExpectedPairs(request.city)) = 3
    /\ Len(response.items) = 2
    /\ <<response.items[1].market, response.items[1].commodity>> = <<"Merkato", "Maize">>
    /\ <<response.items[2].market, response.items[2].commodity>> = <<"Adama", "Teff">>
    /\ response.items[1].change_percent.num < 0
    /\ response.items[2].change_percent.num > 0
    /\ FracAbs(response.items[1].change_percent) = FracAbs(response.items[2].change_percent)

(***************************************************************************)
(* The parser applied to one text                                          *)
(***************************************************************************)
ParseResponse ==
    /\ pc = "idle"
    /\ request.endpoint = "parse"
    /\ response' = parse_gemini_response(request.text)
    /\ pc' = "responded"
    /\ UNCHANGED <<dataset, model, request, predictLocals>>

InitParse ==
    /\ dataset \in Datasets({<<>>})
    /\ DOMAIN dataset.data = {}
    /\ model = "gemini"
    /\ pc = "idle"
    /\ request \in {[endpoint |-> "parse", text |-> t] : t \in ParseInputs}
    /\ response = NoResponse
    /\ NoPredictLocals

NextParse == ParseResponse

SpecParse == InitParse /\ [][NextParse]_vars

(***************************************************************************)
(* Properties of the parser (under SpecParse)                              *)
(***************************************************************************)
\* The trimmed segments of a text that start with a prefix.
SegmentsWith(text, prefix) ==
    LET parts == split(text, Delim)
        trimmed == [i \in 1..Len(parts) |-> strip(parts[i])]
    IN  SelectSeq(trimmed, LAMBDA seg : startswith(seg, prefix))

\* What follows the prefix at the start of a segment, trimmed.
Remainder(seg, prefix) == strip(SubSeq(seg, Len(prefix) + 1, Len(seg)))

FieldAsClaimed(text, value, prefix, default) ==
    LET segs == SegmentsWith(text, prefix)
    IN  /\ segs = <<>> => value = default
        /\ value # default =>
              \E i \in 1..Len(segs) : value = Remainder(segs[i], prefix)

\* C5: each field is the trimmed remainder after its prefix of a segment that
\* starts with that prefix, and the default when no segment starts with it.
\* (Read in the claim's favour: a field left at its default is not held
\* against it, whichever segments were found.)
C5_FieldsAreRemainders ==
    Served("parse") =>
        /\ FieldAsClaimed(request.text, response.prediction, PrefixPrediction, DefaultPrediction)
        /\ FieldAsClaimed(request.text, response.confidence, PrefixConfidence, DefaultConfidence)
        /\ FieldAsClaimed(request.text, response.tip, PrefixTip, DefaultTip)

\* C6: the parser returns, for every text, the four fields prediction,
\* confidence, tip and raw_response, the first three non-empty and
\* raw_response the input text unchanged.
C6_ParseTotal ==
    Served("parse") =>
        /\ DOMAIN response = {"prediction", "confidence", "tip", "raw_response"}
        /\ response.prediction # <<>>
        /\ response.confidence # <<>>
        /\ response.tip # <<>>
        /\ response.raw_response = request.text

\* A text with a "Prediction:" segment of empty value and no other field:
\* all three fields come out as the defaults.
C6_Witness ==
    /\ Served("parse")
    /\ request.text = PrefixPrediction \o Delim \o <<"t","i","p",":">>
    /\ response.prediction = DefaultPrediction
    /\ response.confidence = DefaultConfidence
    /\ response.tip = DefaultTip

(***************************************************************************)
(* POST /predict (main.py:197-230)                                         *)
(***************************************************************************)
\* "Gemini AI not configured - using fallback prediction"
NotConfiguredPrediction == <<"G","e","m","i","n","i"," ","A","I"," ","n","o","t"," ","c","o","n","f","i","g","u","r","e","d"," ","-"," ","u","s","i","n","g"," ","f","a","l","l","b","a","c","k"," ","p","r","e","d","i","c","t","i","o","n">>
\* "Configure GEMINI_API_KEY for real predictions"
NotConfiguredTip == <<"C","o","n","f","i","g","u","r","e"," ","G","E","M","I","N","I","_","A","P","I","_","K","E","Y"," ","f","o","r"," ","r","e","a","l"," ","p","r","e","d","i","c","t","i","o","n","s">>
\* "Fallback response"
NotConfiguredRaw == <<"F","a","l","l","b","a","c","k"," ","r","e","s","p","o","n","s","e">>
\* "Error occurred while generating prediction"
ErrorPrediction == <<"E","r","r","o","r"," ","o","c","c","u","r","r","e","d"," ","w","h","i","l","e"," ","g","e","n","e","r","a","t","i","n","g"," ","p","r","e","d","i","c","t","i","o","n">>
\* "50%"
ErrorConfidence == <<"5","0","%">>
\* "Try again later or check market manually"
ErrorTip == <<"T","r","y"," ","a","g","a","i","n"," ","l","a","t","e","r"," ","o","r"," ","c","h","e","c","k"," ","m","a","r","k","e","t"," ","m","a","n","u","a","l","l","y">>
\* "Error: "
ErrorPrefix == <<"E","r","r","o","r",":"," ">>

\* The handler returns a PricePredictionResponse: HTTP 200 with the four fields.
PricePredictionResponse(prediction, confidence, tip, raw_response) ==
    [status |-> 200,
     body |-> [prediction |-> prediction, confidence |-> confidence,
               tip |-> tip, raw_response |-> raw_response]]

\* The return of lines 206-211.
NotConfiguredResponse ==
    PricePredictionResponse(NotConfiguredPrediction, DefaultConfidence,
                            NotConfiguredTip, NotConfiguredRaw)

\* str(e) without the "Error: " in front.
ErrorRawBare(fault) == fault.description

\* f"Error: {str(e)}"
ErrorRaw(fault) == ErrorPrefix \o fault.description

\* The return of the except branch, lines 224-230.
ErrorResponse(fault) ==
    PricePredictionResponse(ErrorPrediction, ErrorConfidence, ErrorTip, ErrorRaw(fault))

\* The try block without its except branch.
RaisedInTryPropagates(fault) == ServerError(fault.type)

\* An exception raised inside the try block (lines 213-223) is caught.
RaisedInTry(fault) == ErrorResponse(fault)

\* The lookup moved inside the try block.
LookupFailureCaught(error) ==
    ErrorResponse([type |-> "HTTPException", source |-> "lookup", description |-> <<>>])

\* The lookup of line 203 stands before the try block: its HTTPException is
\* not caught and becomes the response.
LookupFailure(error) == error

\* The request's own lists ignored.
NeverTruthy(opt) == FALSE

\* Python truthiness of an Optional[List]: None and [] are falsy.
Truthy(opt) == opt.some /\ opt.val # <<>>

\* The handler without the check of line 205.
ModelNeverAbsent == FALSE

\* `if not model` (line 205)
ModelAbsent == model = "none"

\* IndexError of prices[-1] on an empty list (build_gemini_prompt, line 82)
IndexError ==
    [type |-> "IndexError", source |-> "build_gemini_prompt",
     \* "list index out of range"
     description |-> <<"l","i","s","t"," ","i","n","d","e","x"," ","o","u","t"," ","o","f"," ","r","a","n","g","e">>]

\* build_gemini_prompt (main.py:75-101): the values the template interpolates.
\* Only called with a non-empty price list; on an empty one it raises IndexError.
build_gemini_prompt(p, market, commodity, d) ==
    [market |-> market,
     commodity |-> commodity,
     prices |-> p,
     dates |-> d,
     latest |-> p[Len(p)],
     currency |-> "ETB",
     trend |-> IF p[Len(p)] > p[1] THEN "up"
               ELSE IF p[Len(p)] < p[1] THEN "down" ELSE "flat"]

\* What model.generate_content(prompt).text can do: give a text, or raise.
ModelTexts ==
    { \* "Prediction: Up. / Confidence: 80% / Tip: Buy now."
      <<"P","r","e","d","i","c","t","i","o","n",":"," ","U","p","."," ","/"," ","C","o","n","f","i","d","e","n","c","e",":"," ","8","0","%"," ","/"," ","T","i","p",":"," ","B","u","y"," ","n","o","w",".">>,
      \* "garbage text"
      <<"g","a","r","b","a","g","e"," ","t","e","x","t">>,
      <<>> }

ModelFaults ==
    { [type |-> "TimeoutError", source |-> "generate_content",
       \* "timed out"
       description |-> <<"t","i","m","e","d"," ","o","u","t">>],
      [type |-> "ResourceExhausted", source |-> "generate_content",
       \* "quota exceeded"
       description |-> <<"q","u","o","t","a"," ","e","x","c","e","e","d","e","d">>],
      [type |-> "ValueError", source |-> "response.text",
       \* "response blocked"
       description |-> <<"r","e","s","p","o","n","s","e"," ","b","l","o","c","k","e","d">>] }

\* Request bodies: PricePredictionRequest (main.py:45-49)
PricesArgs == {None, Some(<<>>), Some(<<3, 1>>)}
DatesArgs == {None, Some(<<"d9">>)}
PredictRequests ==
    {[endpoint |-> "predict", market |-> m, commodity |-> c, prices |-> p, dates |-> d] :
         m \in MarketArgs, c \in CommodityArgs, p \in PricesArgs, d \in DatesArgs}

\* The request arrives (line 198).
PredictStart(req) ==
    /\ pc = "idle"
    /\ request' = req
    /\ pc' = "resolve"
    /\ UNCHANGED <<dataset, model, response, predictLocals>>

\* Lines 200-203: the request's prices when truthy, otherwise the dataset's.
ResolvePrices ==
    /\ pc = "resolve"
    /\ trace' = Append(trace, "resolve")
    /\ dates' = IF Truthy(request.dates) THEN request.dates.val ELSE dataset.dates
    /\ LET looked == get_prices_from_dataset(request.market, request.commodity)
       IN  IF Truthy(request.prices)
           THEN /\ prices' = request.prices
                /\ pc' = "check"
                /\ UNCHANGED response
           ELSE IF looked.ok
           THEN /\ prices' = Some(looked.prices)
                /\ pc' = "check"
                /\ UNCHANGED response
           ELSE /\ prices' = request.prices
                /\ response' = LookupFailure(looked.error)
                /\ pc' = "responded"
    /\ UNCHANGED <<dataset, model, request, prompt, response_text, e, calls>>

\* Lines 205-211.
CheckModel ==
    /\ pc = "check"
    /\ IF ModelAbsent
       THEN /\ response' = NotConfiguredResponse
            /\ pc' = "responded"
       ELSE /\ pc' = "build"
            /\ UNCHANGED response
    /\ UNCHANGED <<dataset, model, request, predictLocals>>

\* Line 214, inside the try.
BuildPrompt ==
    /\ pc = "build"
    /\ trace' = Append(trace, "build")
    /\ IF prices.val = <<>>
       THEN /\ e' = Some(IndexError)
            /\ response' = RaisedInTry(IndexError)
            /\ pc' = "responded"
            /\ UNCHANGED prompt
       ELSE /\ prompt' = Some(build_gemini_prompt(prices.val, request.market,
                                                   request.commodity, dates))
            /\ pc' = "invoke"
            /\ UNCHANGED <<e, response>>
    /\ UNCHANGED <<dataset, model, request, prices, dates, response_text, calls>>

\* Lines 215-216: the one call of the external model and the read of its text.
InvokeModel ==
    /\ pc = "invoke"
    /\ trace' = Append(trace, "invoke")
    /\ calls' = calls + 1
    /\ \/ \E text \in ModelTexts :
             /\ response_text' = Some(text)
             /\ pc' = "parse"
             /\ UNCHANGED <<e, response>>
       \/ \E fault \in ModelFaults :
             /\ e' = Some(fault)
             /\ response' = RaisedInTry(fault)
             /\ pc' = "responded"
             /\ UNCHANGED response_text
    /\ UNCHANGED <<dataset, model, request, prices, dates, prompt>>

\* Lines 217-223.
ParseAndReturn ==
    /\ pc = "parse"
    /\ trace' = Append(trace, "parse")
    /\ LET parsed == parse_gemini_response(response_text.val)
       IN  response' = PricePredictionResponse(parsed.prediction, parsed.confidence,
                                               parsed.tip, parsed.raw_response)
    /\ pc' = "responded"
    /\ UNCHANGED <<dataset, model, request, prices, dates, prompt, response_text, e, calls>>

InitPredict ==
    /\ dataset \in Datasets({<<>>, <<1, 2>>})
    /\ model \in {"gemini", "none"}
    /\ pc = "idle"
    /\ request = NoRequest
    /\ response = NoResponse
    /\ NoPredictLocals

NextPredict ==
    \/ \E req \in PredictRequests : PredictStart(req)
    \/ ResolvePrices
    \/ CheckModel
    \/ BuildPrompt
    \/ InvokeModel
    \/ ParseAndReturn
    \/ SendResponse

SpecPredict == InitPredict /\ [][NextPredict]_vars

(***************************************************************************)
(* Properties of POST /predict (under SpecPredict)                         *)
(***************************************************************************)
\* The request carries a non-empty price list.
PricesGiven == request.prices.some /\ request.prices.val # <<>>

\* The dataset holds no price list for the request's (market, commodity).
MarketUnusable ==
    \/ request.market \notin DOMAIN dataset.data
    \/ DOMAIN dataset.data[request.market] = {}

LookupFails ==
    \/ MarketUnusable
    \/ request.commodity \notin DOMAIN dataset.data[request.market]

IsText(x) == DOMAIN x = 1..Len(x) /\ \A i \in DOMAIN x : x[i] \in STRING

\* A well-formed four-field PredictionResult, returned with HTTP success.
WellFormed(r) ==
    /\ r.status = 200
    /\ DOMAIN r.body = {"prediction", "confidence", "tip", "raw_response"}
    /\ \A f \in DOMAIN r.body : IsText(r.body[f])

\* Every step of the handler finds the locals it reads: none is stuck.
StepsCanRun ==
    /\ pc \in {"idle", "resolve", "check", "build", "invoke", "parse", "responded"}
    /\ pc \in {"resolve", "check", "build", "invoke", "parse"} => request.endpoint = "predict"
    /\ pc \in {"check", "build", "invoke"} => prices.some
    /\ pc = "invoke" => prompt.some /\ prices.val # <<>>
    /\ pc = "parse" => response_text.some

C4_ModelFaultResult ==
    (Served("predict") /\ e.some /\ e.val.source \in {"generate_content", "response.text"}) =>
        /\ model = "gemini"
        /\ calls = 1
        /\ response =
              [status |-> 200,
               body |-> [prediction |-> ErrorPrediction,
                         confidence |-> <<"5","0","%">>,
                         tip |-> ErrorTip,
                         raw_response |-> <<"E","r","r","o","r",":"," ">>
                                          \o e.val.description]]

\* The read of the reply's text raised ValueError("response blocked").
C4_Witness ==
    /\ Served("predict")
    /\ e.some
    /\ e.val.type = "ValueError"
    /\ response.body.raw_response =
          \* "Error: response blocked"
          <<"E","r","r","o","r",":"," ","r","e","s","p","o","n","s","e"," ","b","l","o","c","k","e","d">>

Steps == <<"resolve", "build", "invoke", "parse">>

\* The prices a request resolves to.
ExpectedPrices ==
    IF PricesGiven THEN request.prices.val
    ELSE dataset.data[request.market][request.commodity]

\* C10: within one predict call with the model configured the steps come in
\* the order resolve, build prompt, invoke, parse; the model is invoked at
\* most once, and only with a prompt built from the resolved prices; when it
\* returns a text the result is the parse of that text.
C10_StepOrder ==
    model = "gemini" =>
        /\ Len(trace) <= Len(Steps)
        /\ trace = SubSeq(Steps, 1, Len(trace))
        /\ calls = Len(SelectSeq(trace, LAMBDA step : step = "invoke"))
        /\ calls <= 1
        /\ calls = 1 =>
              /\ prompt.some
              /\ prompt.val.prices = ExpectedPrices
              /\ prompt.val.market = request.market
              /\ prompt.val.commodity = request.commodity
        /\ (Served("predict") /\ response_text.some) =>
              /\ trace = Steps
              /\ response = [status |-> 200,
                             body |-> parse_gemini_response(response_text.val)]

\* Prices looked up, the model answers in the requested format, and the three
\* fields come out of it.
C10_Witness ==
    /\ Served("predict")
    /\ ~request.prices.some
    /\ trace = Steps
    /\ calls = 1
    /\ prompt.val.prices = <<1, 2>>
    /\ response.body.prediction = <<"U","p",".">>
    /\ response.body.confidence = <<"8","0","%">>
    /\ response.body.tip = <<"B","u","y"," ","n","o","w",".">>

====
